---- MODULE Spec2Model ----
(***************************************************************************)
(* The statefulset-stable scheduler plugin                                 *)
(* (pkg/stateful/statefulset_stable.go): Filter vetoes candidate nodes     *)
(* from the schedule record kept in an annotation of the owning            *)
(* StatefulSet, PostBind adds the bound node to that record with an        *)
(* optimistic-concurrency update retried on conflict.                      *)
(*                                                                         *)
(* The StatefulSet is read through the informer's lister (cache) and       *)
(* written through the clientset (store); the two are distinct copies and  *)
(* the cache follows the store one watch event at a time, in order.        *)
(***************************************************************************)
EXTENDS Integers, Sequences, FiniteSets, TLC

(***************************************************************************)
(* Program constants                                                       *)
(***************************************************************************)
Kind == "StatefulSet"
StatefulsetStableRecord == "statefulset-stable.scheduling.sigs.k8s.io/record"
StatefulsetStable == "statefulset-stable.scheduling.sigs.k8s.io"
\* retry.DefaultBackoff.Steps: the number of times fn is run by RetryOnConflict
Steps == 4

(***************************************************************************)
(* Bounds                                                                  *)
(***************************************************************************)
\* longest list of "name":"node" members in an initial record text
MaxPairs == 2
\* PostBind invocations in one behaviour (each runs in its own goroutine)
MaxProcs == 2
\* updates of a StatefulSet by writers other than the plugin
MaxTouch == 1

(***************************************************************************)
(* Universe of names                                                       *)
(***************************************************************************)
\* pod names, listed in the byte order json.Marshal sorts map keys in
KeyOrder == <<"web-0", "web-1">>
PodNames == {KeyOrder[i] : i \in 1..Len(KeyOrder)}
NodeNames == {"node1", "node2"}
GroupNames == {"web", "db"}
OtherKind == "ReplicaSet"
OtherAnnotation == "kubectl.kubernetes.io/last-applied-configuration"
OtherLabel == "app"

Procs == 1..MaxProcs

(***************************************************************************)
(* JSON texts.  An annotation value is a string; the strings that matter   *)
(* to encoding/json are told apart by form:                                *)
(*   "empty"      the empty string                                         *)
(*   "junk"       anything that is not JSON for a ScheduleRecord           *)
(*   "null"       null                                                     *)
(*   "obj"        {}                                                       *)
(*   "objNull"    {"Records":null}                                         *)
(*   "objRecords" {"Records":{ pairs }} with the members in text order     *)
(*                (a text may repeat a key)                                *)
(***************************************************************************)
Text(form, pairs) == [form |-> form, pairs |-> pairs]

RECURSIVE SeqsUpTo(_, _)
SeqsUpTo(S, n) ==
    IF n = 0 THEN {<<>>}
    ELSE LET shorter == SeqsUpTo(S, n - 1)
         IN  shorter \cup {Append(s, x) : s \in shorter, x \in S}

MemberTexts == {Text("objRecords", ps) : ps \in SeqsUpTo(PodNames \X NodeNames, MaxPairs)}
Texts ==
    {Text(f, <<>>) : f \in {"empty", "junk", "null", "obj", "objNull"}} \cup MemberTexts

(***************************************************************************)
(* type ScheduleRecord struct { Records map[string]string }                *)
(* A *ScheduleRecord is nil or points at a struct whose map is nil or not. *)
(***************************************************************************)
EmptyMap == [k \in {} |-> "node1"]
NilRecord == [isNil |-> TRUE, RecordsNil |-> TRUE, Records |-> EmptyMap]
ScheduleRecord(m) == [isNil |-> FALSE, RecordsNil |-> FALSE, Records |-> m]

\* the map a JSON object's members decode to: a repeated key keeps its last value
MembersToMap(pairs) ==
    [k \in {pairs[i][1] : i \in 1..Len(pairs)} |->
        LET last == CHOOSE i \in 1..Len(pairs) :
                        /\ pairs[i][1] = k
                        /\ \A j \in (i + 1)..Len(pairs) : pairs[j][1] # k
        IN  pairs[last][2]]

\* a decoder that takes the empty string for null
Unmarshal_EmptyAsNull(text) ==
    CASE text.form = "junk" -> [err |-> TRUE, record |-> NilRecord]
      [] text.form \in {"null", "empty"} -> [err |-> FALSE, record |-> NilRecord]
      [] text.form \in {"obj", "objNull"} ->
            [err |-> FALSE,
             record |-> [isNil |-> FALSE, RecordsNil |-> TRUE, Records |-> EmptyMap]]
      [] OTHER -> [err |-> FALSE, record |-> ScheduleRecord(MembersToMap(text.pairs))]

\* json.Unmarshal([]byte(rec), &record) with record a nil *ScheduleRecord
Unmarshal(text) ==
    CASE text.form \in {"empty", "junk"} -> [err |-> TRUE, record |-> NilRecord]
      [] text.form = "null" -> [err |-> FALSE, record |-> NilRecord]
      [] text.form \in {"obj", "objNull"} ->
            [err |-> FALSE,
             record |-> [isNil |-> FALSE, RecordsNil |-> TRUE, Records |-> EmptyMap]]
      [] OTHER -> [err |-> FALSE, record |-> ScheduleRecord(MembersToMap(text.pairs))]

RECURSIVE SortedMembers(_, _)
SortedMembers(m, i) ==
    IF i > Len(KeyOrder) THEN <<>>
    ELSE IF KeyOrder[i] \in DOMAIN m
         THEN <<(<<KeyOrder[i], m[KeyOrder[i]]>>)>> \o SortedMembers(m, i + 1)
         ELSE SortedMembers(m, i + 1)

\* json.Marshal(record): one member per map key, keys sorted
Marshal(record) ==
    IF record.RecordsNil THEN Text("objNull", <<>>)
    ELSE Text("objRecords", SortedMembers(record.Records, 1))

(***************************************************************************)
(* Objects                                                                 *)
(***************************************************************************)
\* Go's m[k] on a map[string]string: the zero value "" for a missing key
MapGet(m, k) == IF k \in DOMAIN m THEN m[k] ELSE ""

\* a map[string]string field: nil, or a map
NilMap == [isNil |-> TRUE, kv |-> EmptyMap]
GoMap(kv) == [isNil |-> FALSE, kv |-> kv]

\* an ownership reference and a pod (all pods live in one namespace)
OwnerReference(kind, name) == [Kind |-> kind, Name |-> name]
Pod(name, labels, owners) == [name |-> name, labels |-> labels, owners |-> owners]

\* a StatefulSet of the namespace as the API server or the lister holds it;
\* rv is its resourceVersion
NoStatefulSet == [exists |-> FALSE, annotations |-> NilMap, rv |-> 0]
StatefulSet(annotations, rv) == [exists |-> TRUE, annotations |-> annotations, rv |-> rv]

(***************************************************************************)
(* Helpers of the plugin                                                   *)
(***************************************************************************)
\* the label test taking any value of the label for an opt-in
containStatefulsetStableLabel_AnyValue(pod) ==
    IF pod.labels.isNil THEN FALSE
    ELSE IF MapGet(pod.labels.kv, StatefulsetStable) # "" THEN TRUE
    ELSE FALSE

containStatefulsetStableLabel(pod) ==
    IF pod.labels.isNil THEN FALSE
    ELSE IF MapGet(pod.labels.kv, StatefulsetStable) = "true" THEN TRUE
    ELSE FALSE

\* st.statefulSetLister.StatefulSets(pod.Namespace).Get(name): a read of the
\* informer's cache, an error when the cache has no such object
ListerGet(lister, name) ==
    IF name \in DOMAIN lister /\ lister[name].exists
    THEN [err |-> FALSE, name |-> name, obj |-> lister[name]]
    ELSE [err |-> TRUE, name |-> name, obj |-> NoStatefulSet]

NilStatefulSet == [isNil |-> TRUE, name |-> "", obj |-> NoStatefulSet]

\* the resolution without the test of the reference's kind
createByStatefulset_AnyKind(pod, lister) ==
    IF Len(pod.owners) > 0
    THEN LET got == ListerGet(lister, pod.owners[1].Name)
         IN  IF got.err THEN NilStatefulSet
             ELSE [isNil |-> FALSE, name |-> got.name, obj |-> got.obj]
    ELSE NilStatefulSet

\* the resolution by the name of the reference whose kind matched
createByStatefulset_MatchedName(pod, lister) ==
    IF \E i \in 1..Len(pod.owners) : pod.owners[i].Kind = Kind
    THEN LET first == CHOOSE i \in 1..Len(pod.owners) :
                          /\ pod.owners[i].Kind = Kind
                          /\ \A j \in 1..(i - 1) : pod.owners[j].Kind # Kind
             got == ListerGet(lister, pod.owners[first].Name)
         IN  IF got.err THEN NilStatefulSet
             ELSE [isNil |-> FALSE, name |-> got.name, obj |-> got.obj]
    ELSE NilStatefulSet

\* the loop returns at the first reference of kind StatefulSet, with the
\* object named by ows[0]
createByStatefulset(pod, lister) ==
    IF \E i \in 1..Len(pod.owners) : pod.owners[i].Kind = Kind
    THEN LET got == ListerGet(lister, pod.owners[1].Name)
         IN  IF got.err THEN NilStatefulSet
             ELSE [isNil |-> FALSE, name |-> got.name, obj |-> got.obj]
    ELSE NilStatefulSet

getScheduleRecord(statefulset) ==
    LET ats == statefulset.obj.annotations
    IN  IF ~ats.isNil /\ StatefulsetStableRecord \in DOMAIN ats.kv
        THEN LET u == Unmarshal(ats.kv[StatefulsetStableRecord])
             IN  IF u.err THEN [record |-> NilRecord, err |-> TRUE]
                 ELSE [record |-> u.record, err |-> FALSE]
        ELSE [record |-> NilRecord, err |-> FALSE]

(***************************************************************************)
(* Filter                                                                  *)
(***************************************************************************)
Status(code, reason) == [code |-> code, reason |-> reason]

\* Filter without the veto on a node other than the recorded one
FilterStatus_NoVeto(pod, nodeName, lister) ==
    IF ~containStatefulsetStableLabel(pod) THEN Status("Success", "")
    ELSE LET statefulset == createByStatefulset(pod, lister)
         IN  IF statefulset.isNil THEN Status("Success", "")
             ELSE IF getScheduleRecord(statefulset).err
                  THEN Status("Unschedulable", "unmarshal error")
                  ELSE Status("Success", "")

\* Filter reading the map without the ok test: a missing entry reads as ""
FilterStatus_ZeroValue(pod, nodeName, lister) ==
    IF ~containStatefulsetStableLabel(pod) THEN Status("Success", "")
    ELSE LET statefulset == createByStatefulset(pod, lister)
         IN  IF statefulset.isNil THEN Status("Success", "")
             ELSE LET got == getScheduleRecord(statefulset)
                  IN  IF got.err THEN Status("Unschedulable", "unmarshal error")
                      ELSE IF /\ ~got.record.isNil
                              /\ MapGet(got.record.Records, pod.name) # nodeName
                           THEN Status("Unschedulable", "")
                           ELSE Status("Success", "")

\* Filter dropping the decode error
FilterStatus_IgnoreErr(pod, nodeName, lister) ==
    IF ~containStatefulsetStableLabel(pod) THEN Status("Success", "")
    ELSE LET statefulset == createByStatefulset(pod, lister)
         IN  IF statefulset.isNil THEN Status("Success", "")
             ELSE LET got == getScheduleRecord(statefulset)
                  IN  IF /\ ~got.err
                         /\ ~got.record.isNil
                         /\ pod.name \in DOMAIN got.record.Records
                         /\ got.record.Records[pod.name] # nodeName
                      THEN Status("Unschedulable", "")
                      ELSE Status("Success", "")

FilterStatus(pod, nodeName, lister) ==
    IF ~containStatefulsetStableLabel(pod) THEN Status("Success", "")
    ELSE LET statefulset == createByStatefulset(pod, lister)
         IN  IF statefulset.isNil THEN Status("Success", "")
             ELSE LET got == getScheduleRecord(statefulset)
                  IN  IF got.err THEN Status("Unschedulable", "unmarshal error")
                      ELSE IF /\ ~got.record.isNil
                              /\ pod.name \in DOMAIN got.record.Records
                              /\ got.record.Records[pod.name] # nodeName
                           THEN Status("Unschedulable", "")
                           ELSE Status("Success", "")

(***************************************************************************)
(* setScheduleRecord up to its Update call: the error it returns before    *)
(* the call, or whether it calls Update and with which object              *)
(***************************************************************************)
\* the insertion into a fresh map instead of the decoded one
RecordWith_Fresh(record, name, nodeName) ==
    ScheduleRecord([k \in {name} |-> nodeName])

RecordWith(record, name, nodeName) ==
    LET m == record.Records
    IN  ScheduleRecord([k \in DOMAIN m \cup {name} |-> IF k = name THEN nodeName ELSE m[k]])

\* setScheduleRecord with the ok test dropped or weakened: needUpdate is given
SetScheduleRecordWith(statefulset, pod, nodeName, needUpdate) ==
    LET got == getScheduleRecord(statefulset)
        ats == statefulset.obj.annotations
        recordBytes == Marshal(RecordWith(got.record, pod.name, nodeName))
        statefulsetCopy ==
            [statefulset EXCEPT !.obj.annotations =
                GoMap([k \in DOMAIN ats.kv \cup {StatefulsetStableRecord} |->
                          IF k = StatefulsetStableRecord THEN recordBytes ELSE ats.kv[k]])]
    IN  IF got.err THEN [err |-> TRUE, needUpdate |-> FALSE, copy |-> statefulset]
        ELSE IF needUpdate THEN [err |-> FALSE, needUpdate |-> TRUE, copy |-> statefulsetCopy]
        ELSE [err |-> FALSE, needUpdate |-> FALSE, copy |-> statefulset]

\* a record that does not decode is taken for an empty one and written over
setScheduleRecord_Repair(statefulset, pod, nodeName) ==
    LET got == getScheduleRecord(statefulset)
        ats == statefulset.obj.annotations
        recordBytes == Marshal(RecordWith(got.record, pod.name, nodeName))
        statefulsetCopy ==
            [statefulset EXCEPT !.obj.annotations =
                GoMap([k \in DOMAIN ats.kv \cup {StatefulsetStableRecord} |->
                          IF k = StatefulsetStableRecord THEN recordBytes ELSE ats.kv[k]])]
    IN  IF pod.name \notin DOMAIN got.record.Records
        THEN [err |-> FALSE, needUpdate |-> TRUE, copy |-> statefulsetCopy]
        ELSE [err |-> FALSE, needUpdate |-> FALSE, copy |-> statefulset]

\* an entry for another node is overwritten
setScheduleRecord_Overwrite(statefulset, pod, nodeName) ==
    SetScheduleRecordWith(statefulset, pod, nodeName,
        MapGet(getScheduleRecord(statefulset).record.Records, pod.name) # nodeName)

\* the object is written whether or not the entry is new
setScheduleRecord_AlwaysUpdate(statefulset, pod, nodeName) ==
    SetScheduleRecordWith(statefulset, pod, nodeName, TRUE)

setScheduleRecord(statefulset, pod, nodeName) ==
    LET got == getScheduleRecord(statefulset)
        needUpdate == pod.name \notin DOMAIN got.record.Records
        ats == statefulset.obj.annotations
        recordBytes == Marshal(RecordWith(got.record, pod.name, nodeName))
        statefulsetCopy ==
            [statefulset EXCEPT !.obj.annotations =
                GoMap([k \in DOMAIN ats.kv \cup {StatefulsetStableRecord} |->
                          IF k = StatefulsetStableRecord THEN recordBytes ELSE ats.kv[k]])]
    IN  IF got.err THEN [err |-> TRUE, needUpdate |-> FALSE, copy |-> statefulset]
        ELSE IF needUpdate THEN [err |-> FALSE, needUpdate |-> TRUE, copy |-> statefulsetCopy]
        ELSE [err |-> FALSE, needUpdate |-> FALSE, copy |-> statefulset]

(***************************************************************************)
(* State                                                                   *)
(***************************************************************************)
VARIABLES
    store,      \* the StatefulSets at the API server, by name
    cache,      \* the StatefulSets in the informer's cache the lister reads
    events,     \* per StatefulSet, the watch events not yet applied to the cache
    procs,      \* the PostBind invocations: position, arguments and locals
    touched,    \* updates made so far by other writers
    pods,       \* the pods of the namespace that the scheduler handles
    cancelled,  \* the ctx handed to the calls is done (ctx.Err() # nil)
    lastCall    \* the Filter call that has just returned, with its status

vars == <<store, cache, events, procs, touched, pods, cancelled, lastCall>>

NoPod == Pod("", NilMap, <<>>)
NoCall == [op |-> "none", pod |-> NoPod, node |-> "", status |-> Status("", "")]
Idle ==
    [pc |-> "idle", pod |-> NoPod, node |-> "", attempt |-> 0,
     copy |-> NilStatefulSet, err |-> ""]

(***************************************************************************)
(* Inputs: the pods and objects the handlers are called with               *)
(***************************************************************************)
LabelSets ==
    {NilMap,
     GoMap([k \in {OtherLabel} |-> "nginx"]),
     GoMap([k \in {StatefulsetStable} |-> "true"]),
     GoMap([k \in {StatefulsetStable} |-> "false"])}

OwnerLists ==
    {<<>>,
     <<OwnerReference(Kind, "web")>>,
     <<OwnerReference(OtherKind, "web")>>,
     <<OwnerReference(OtherKind, "db"), OwnerReference(Kind, "web")>>}

Pods == {Pod(n, l, o) : n \in PodNames, l \in LabelSets, o \in OwnerLists}

\* the replicas of StatefulSet web that opted in
StablePods ==
    {Pod(n, GoMap([k \in {StatefulsetStable} |-> "true"]), <<OwnerReference(Kind, "web")>>) :
        n \in PodNames}

AnnotationsWith(texts) ==
    {NilMap, GoMap(EmptyMap), GoMap([k \in {OtherAnnotation} |-> Text("junk", <<>>)])}
    \cup {GoMap([k \in {StatefulsetStableRecord} |-> t]) : t \in texts}
    \cup {GoMap([k \in {StatefulsetStableRecord, OtherAnnotation} |->
                    IF k = StatefulsetStableRecord THEN t ELSE Text("junk", <<>>)]) :
            t \in texts}

ObjectsWith(texts) == {StatefulSet(a, 1) : a \in AnnotationsWith(texts)}

\* the second StatefulSet of the namespace: absent, or with a record of its own
DbObjects ==
    {NoStatefulSet,
     StatefulSet(GoMap([k \in {StatefulsetStableRecord} |->
                           Text("objRecords", <<(<<"web-0", "node2">>)>>)]), 1)}

(***************************************************************************)
(* Filter(ctx, state, pod, nodeInfo)                                       *)
(***************************************************************************)
\* a Filter that inserts the candidate into the lister's object in place
Filter_MutatesCache(pod, nodeName) ==
    LET statefulset == createByStatefulset(pod, cache)
        plan == setScheduleRecord(statefulset, pod, nodeName)
    IN  /\ lastCall' = [op |-> "Filter", pod |-> pod, node |-> nodeName,
                        status |-> FilterStatus(pod, nodeName, cache)]
        /\ cache' = IF containStatefulsetStableLabel(pod) /\ ~statefulset.isNil /\ plan.needUpdate
                    THEN [cache EXCEPT ![statefulset.name] = plan.copy.obj]
                    ELSE cache
        /\ UNCHANGED <<store, events, procs, touched, pods, cancelled>>

Filter(pod, nodeName) ==
    /\ lastCall' = [op |-> "Filter", pod |-> pod, node |-> nodeName,
                    status |-> FilterStatus(pod, nodeName, cache)]
    /\ UNCHANGED <<store, cache, events, procs, touched, pods, cancelled>>

(***************************************************************************)
(* PostBind(ctx, state, pod, nodeName)                                     *)
(***************************************************************************)
Returned(pod, nodeName, n, err) ==
    [pc |-> "done", pod |-> pod, node |-> nodeName, attempt |-> n,
     copy |-> NilStatefulSet, err |-> err]

\* a run that issues its Update although ctx is done
RunFn_IgnoreCtx(p, pod, nodeName, n) ==
    LET statefulset == createByStatefulset(pod, cache)
        plan == setScheduleRecord(statefulset, pod, nodeName)
    IN  procs' = [procs EXCEPT ![p] =
            IF statefulset.isNil THEN Returned(pod, nodeName, n, "")
            ELSE IF plan.err THEN Returned(pod, nodeName, n, "unmarshal error")
            ELSE IF plan.needUpdate
                 THEN [pc |-> "update", pod |-> pod, node |-> nodeName, attempt |-> n,
                       copy |-> plan.copy, err |-> ""]
                 ELSE Returned(pod, nodeName, n, "")]

\* a run that returns the lookup's failure instead of nil
RunFn_PropagateLookupErr(p, pod, nodeName, n) ==
    LET statefulset == createByStatefulset(pod, cache)
        plan == setScheduleRecord(statefulset, pod, nodeName)
    IN  procs' = [procs EXCEPT ![p] =
            IF statefulset.isNil THEN Returned(pod, nodeName, n, "not found")
            ELSE IF plan.err THEN Returned(pod, nodeName, n, "unmarshal error")
            ELSE IF plan.needUpdate
                 THEN IF cancelled THEN Returned(pod, nodeName, n, "context canceled")
                      ELSE [pc |-> "update", pod |-> pod, node |-> nodeName, attempt |-> n,
                            copy |-> plan.copy, err |-> ""]
                 ELSE Returned(pod, nodeName, n, "")]

\* one run of the function handed to RetryOnConflict, up to its return or to
\* its Update call: the n-th run of invocation p
RunFn(p, pod, nodeName, n) ==
    LET statefulset == createByStatefulset(pod, cache)
        plan == setScheduleRecord(statefulset, pod, nodeName)
    IN  procs' = [procs EXCEPT ![p] =
            IF statefulset.isNil THEN Returned(pod, nodeName, n, "")
            ELSE IF plan.err THEN Returned(pod, nodeName, n, "unmarshal error")
            ELSE IF plan.needUpdate
                 THEN IF cancelled THEN Returned(pod, nodeName, n, "context canceled")
                      ELSE [pc |-> "update", pod |-> pod, node |-> nodeName, attempt |-> n,
                            copy |-> plan.copy, err |-> ""]
                 ELSE Returned(pod, nodeName, n, "")]

\* (the invocations are numbered in the order they start)
PostBind(p, pod, nodeName) ==
    /\ procs[p].pc = "idle"
    /\ \A q \in Procs : q < p => procs[q].pc # "idle"
    /\ IF ~containStatefulsetStableLabel(pod)
       THEN procs' = [procs EXCEPT ![p] = Returned(pod, nodeName, 0, "")]
       ELSE RunFn(p, pod, nodeName, 1)
    /\ lastCall' = NoCall
    /\ UNCHANGED <<store, cache, events, touched, pods, cancelled>>

\* an Update that is not conditioned on the resourceVersion
Update_Unconditional(p) ==
    LET c == procs[p].copy
        cur == store[c.name]
        me == procs[p]
    IN  /\ me.pc = "update"
        /\ ~cancelled
        /\ IF ~cur.exists
           THEN /\ procs' = [procs EXCEPT ![p] =
                        Returned(me.pod, me.node, me.attempt, "not found")]
                /\ UNCHANGED <<store, events>>
           ELSE /\ store' = [store EXCEPT ![c.name] =
                        StatefulSet(c.obj.annotations, cur.rv + 1)]
                /\ events' = [events EXCEPT ![c.name] = Append(@, store'[c.name])]
                /\ procs' = [procs EXCEPT ![p] = Returned(me.pod, me.node, me.attempt, "")]
        /\ lastCall' = NoCall
        /\ UNCHANGED <<cache, touched, pods, cancelled>>

\* after a conflict the Update call alone is repeated, with the object
\* computed before the conflict
Update_RetryWriteOnly(p) ==
    LET c == procs[p].copy
        cur == store[c.name]
        me == procs[p]
    IN  /\ me.pc = "update"
        /\ ~cancelled
        /\ IF ~cur.exists
           THEN /\ procs' = [procs EXCEPT ![p] =
                        Returned(me.pod, me.node, me.attempt, "not found")]
                /\ UNCHANGED <<store, events>>
           ELSE IF cur.rv = c.obj.rv
           THEN /\ store' = [store EXCEPT ![c.name] =
                        StatefulSet(c.obj.annotations, cur.rv + 1)]
                /\ events' = [events EXCEPT ![c.name] = Append(@, store'[c.name])]
                /\ procs' = [procs EXCEPT ![p] = Returned(me.pod, me.node, me.attempt, "")]
           ELSE /\ procs' = [procs EXCEPT ![p] =
                        IF me.attempt >= Steps
                        THEN Returned(me.pod, me.node, me.attempt, "conflict")
                        ELSE [me EXCEPT !.attempt = @ + 1]]
                /\ UNCHANGED <<store, events>>
        /\ lastCall' = NoCall
        /\ UNCHANGED <<cache, touched, pods, cancelled>>

\* a conflict is retried whatever the number of attempts made
Update_RetryForever(p) ==
    LET c == procs[p].copy
        cur == store[c.name]
        me == procs[p]
    IN  /\ me.pc = "update"
        /\ ~cancelled
        /\ IF ~cur.exists
           THEN /\ procs' = [procs EXCEPT ![p] =
                        Returned(me.pod, me.node, me.attempt, "not found")]
                /\ UNCHANGED <<store, events>>
           ELSE IF cur.rv = c.obj.rv
           THEN /\ store' = [store EXCEPT ![c.name] =
                        StatefulSet(c.obj.annotations, cur.rv + 1)]
                /\ events' = [events EXCEPT ![c.name] = Append(@, store'[c.name])]
                /\ procs' = [procs EXCEPT ![p] = Returned(me.pod, me.node, me.attempt, "")]
           ELSE /\ procs' = [procs EXCEPT ![p] =
                        [me EXCEPT !.pc = "sleep", !.copy = NilStatefulSet]]
                /\ UNCHANGED <<store, events>>
        /\ lastCall' = NoCall
        /\ UNCHANGED <<cache, touched, pods, cancelled>>

\* the API server serves the Update of invocation p: it stores the object when
\* its resourceVersion is the stored one, and answers Conflict otherwise
Update(p) ==
    LET c == procs[p].copy
        cur == store[c.name]
        me == procs[p]
    IN  /\ me.pc = "update"
        /\ ~cancelled
        /\ IF ~cur.exists
           THEN /\ procs' = [procs EXCEPT ![p] =
                        Returned(me.pod, me.node, me.attempt, "not found")]
                /\ UNCHANGED <<store, events>>
           ELSE IF cur.rv = c.obj.rv
           THEN /\ store' = [store EXCEPT ![c.name] =
                        StatefulSet(c.obj.annotations, cur.rv + 1)]
                /\ events' = [events EXCEPT ![c.name] = Append(@, store'[c.name])]
                /\ procs' = [procs EXCEPT ![p] = Returned(me.pod, me.node, me.attempt, "")]
           ELSE /\ procs' = [procs EXCEPT ![p] =
                        IF me.attempt >= Steps
                        THEN Returned(me.pod, me.node, me.attempt, "conflict")
                        ELSE [me EXCEPT !.pc = "sleep", !.copy = NilStatefulSet]]
                /\ UNCHANGED <<store, events>>
        /\ lastCall' = NoCall
        /\ UNCHANGED <<cache, touched, pods, cancelled>>

\* every error of the Update call is retried, not the conflict alone
UpdateError_Retried(p) ==
    LET me == procs[p]
    IN  /\ me.pc = "update"
        /\ ~cancelled
        /\ procs' = [procs EXCEPT ![p] =
                IF me.attempt >= Steps
                THEN Returned(me.pod, me.node, me.attempt, "backend error")
                ELSE [me EXCEPT !.pc = "sleep", !.copy = NilStatefulSet]]
        /\ lastCall' = NoCall
        /\ UNCHANGED <<store, cache, events, touched, pods, cancelled>>

\* the Update of invocation p fails with an error other than Conflict
UpdateError(p) ==
    LET me == procs[p]
    IN  /\ me.pc = "update"
        /\ ~cancelled
        /\ procs' = [procs EXCEPT ![p] = Returned(me.pod, me.node, me.attempt, "backend error")]
        /\ lastCall' = NoCall
        /\ UNCHANGED <<store, cache, events, touched, pods, cancelled>>

\* ctx is done while the Update of invocation p is in flight: the call returns
\* ctx's error, and the request has reached the API server or has not
UpdateCancelled(p) ==
    LET c == procs[p].copy
        cur == store[c.name]
        me == procs[p]
    IN  /\ me.pc = "update"
        /\ cancelled
        /\ \E served \in BOOLEAN :
              IF served /\ cur.exists /\ cur.rv = c.obj.rv
              THEN /\ store' = [store EXCEPT ![c.name] =
                           StatefulSet(c.obj.annotations, cur.rv + 1)]
                   /\ events' = [events EXCEPT ![c.name] = Append(@, store'[c.name])]
              ELSE UNCHANGED <<store, events>>
        /\ procs' = [procs EXCEPT ![p] =
                Returned(me.pod, me.node, me.attempt, "context canceled")]
        /\ lastCall' = NoCall
        /\ UNCHANGED <<cache, touched, pods, cancelled>>

\* the backoff sleep of invocation p ends and the function runs again
Retry(p) ==
    LET me == procs[p]
    IN  /\ me.pc = "sleep"
        /\ RunFn(p, me.pod, me.node, me.attempt + 1)
        /\ lastCall' = NoCall
        /\ UNCHANGED <<store, cache, events, touched, pods, cancelled>>

(***************************************************************************)
(* Environment                                                             *)
(***************************************************************************)
\* the informer applies the next watch event of StatefulSet g to the cache
InformerSync(g) ==
    /\ events[g] # <<>>
    /\ cache' = [cache EXCEPT ![g] = Head(events[g])]
    /\ events' = [events EXCEPT ![g] = Tail(@)]
    /\ lastCall' = NoCall
    /\ UNCHANGED <<store, procs, touched, pods, cancelled>>

\* the caller cancels the ctx it handed to Filter and PostBind
Cancel ==
    /\ ~cancelled
    /\ cancelled' = TRUE
    /\ lastCall' = NoCall
    /\ UNCHANGED <<store, cache, events, procs, touched, pods>>

\* another writer (the StatefulSet controller's status update, for one)
\* updates StatefulSet g and leaves its annotations alone
ExternalUpdate(g) ==
    /\ store[g].exists
    /\ touched < MaxTouch
    /\ store' = [store EXCEPT ![g].rv = @ + 1]
    /\ events' = [events EXCEPT ![g] = Append(@, store'[g])]
    /\ touched' = touched + 1
    /\ lastCall' = NoCall
    /\ UNCHANGED <<cache, procs, pods, cancelled>>

(***************************************************************************)
(* Specifications                                                          *)
(***************************************************************************)
InitRest ==
    /\ procs = [p \in Procs |-> Idle]
    /\ touched = 0
    /\ cancelled = FALSE
    /\ lastCall = NoCall

(***************************************************************************)
(* SpecFilter: Filter on every pod and node, the lister's content drawn    *)
(* from every form of record text.                                         *)
(***************************************************************************)
InitFilter ==
    /\ \E w \in {NoStatefulSet} \cup ObjectsWith(Texts), d \in DbObjects :
          store = [g \in GroupNames |-> IF g = "web" THEN w ELSE d]
    /\ cache = store
    /\ events = [g \in GroupNames |-> <<>>]
    /\ pods = Pods
    /\ InitRest

NextFilter == \E pod \in pods, nodeName \in NodeNames : Filter(pod, nodeName)

SpecFilter == InitFilter /\ [][NextFilter]_vars

(***************************************************************************)
(* SpecCalls: one pod, any pod, through the two extension points: Filter   *)
(* on candidate nodes and one PostBind, on every form of record text.  The *)
(* StatefulSet may have been deleted at the API server while the cache     *)
(* still holds it.                                                         *)
(***************************************************************************)
InitCalls ==
    /\ \E w \in {NoStatefulSet} \cup ObjectsWith(Texts), d \in DbObjects :
          cache = [g \in GroupNames |-> IF g = "web" THEN w ELSE d]
    /\ \E gone \in SUBSET {"web"} :
          /\ store = [g \in GroupNames |-> IF g \in gone THEN NoStatefulSet ELSE cache[g]]
          /\ events = [g \in GroupNames |->
                          IF g \in gone /\ cache[g].exists THEN <<NoStatefulSet>> ELSE <<>>]
    /\ \E pod \in Pods : pods = {pod}
    /\ InitRest

NextCalls ==
    \/ \E pod \in pods, nodeName \in NodeNames : Filter(pod, nodeName)
    \/ \E pod \in pods, nodeName \in NodeNames : PostBind(1, pod, nodeName)
    \/ Update(1)
    \/ UpdateError(1)
    \/ Retry(1)
    \/ \E g \in GroupNames : InformerSync(g)
    \/ \E g \in GroupNames : ExternalUpdate(g)

SpecCalls == InitCalls /\ [][NextCalls]_vars

(***************************************************************************)
(* Spec: concurrent PostBind invocations for the opted-in replicas of      *)
(* StatefulSet web, the informer in sync at the start; the invocations are *)
(* the only writers (SpecCalls has the other writers).                     *)
(***************************************************************************)
RaceObjects ==
    {StatefulSet(NilMap, 1),
     StatefulSet(GoMap([k \in {OtherAnnotation} |-> Text("junk", <<>>)]), 1),
     StatefulSet(GoMap([k \in {StatefulsetStableRecord} |-> Text("junk", <<>>)]), 1),
     StatefulSet(GoMap([k \in {StatefulsetStableRecord} |->
                           Text("objRecords", <<(<<"web-1", "node2">>)>>)]), 1),
     StatefulSet(GoMap([k \in {StatefulsetStableRecord} |->
                           Text("objRecords", <<(<<"web-0", "node1">>)>>)]), 1)}

Init ==
    /\ \E w \in RaceObjects :
          store = [g \in GroupNames |-> IF g = "web" THEN w ELSE NoStatefulSet]
    /\ cache = store
    /\ events = [g \in GroupNames |-> <<>>]
    /\ pods = StablePods
    /\ InitRest

Next ==
    \/ \E p \in Procs, pod \in pods, nodeName \in NodeNames : PostBind(p, pod, nodeName)
    \/ \E p \in Procs : Update(p)
    \/ \E p \in Procs : UpdateError(p)
    \/ \E p \in Procs : Retry(p)
    \/ \E g \in GroupNames : InformerSync(g)

Spec == Init /\ [][Next]_vars

(***************************************************************************)
(* SpecEmpty: the concurrent invocations of Spec, starting from an empty   *)
(* record: no annotation, or a record without entries.                     *)
(***************************************************************************)
EmptyObjects ==
    {StatefulSet(NilMap, 1),
     StatefulSet(GoMap([k \in {StatefulsetStableRecord} |-> Text("objRecords", <<>>)]), 1)}

InitEmpty ==
    /\ \E w \in EmptyObjects :
          store = [g \in GroupNames |-> IF g = "web" THEN w ELSE NoStatefulSet]
    /\ cache = store
    /\ events = [g \in GroupNames |-> <<>>]
    /\ pods = StablePods
    /\ InitRest

SpecEmpty == InitEmpty /\ [][Next]_vars

(***************************************************************************)
(* SpecCancel: Filter calls and one PostBind invocation for the opted-in   *)
(* replicas of StatefulSet web, among other writers, with a ctx that the   *)
(* caller may cancel at any point.                                         *)
(***************************************************************************)
NextCancel ==
    \/ \E pod \in pods, nodeName \in NodeNames : Filter(pod, nodeName)
    \/ \E pod \in pods, nodeName \in NodeNames : PostBind(1, pod, nodeName)
    \/ Update(1)
    \/ UpdateError(1)
    \/ UpdateCancelled(1)
    \/ Retry(1)
    \/ \E g \in GroupNames : InformerSync(g)
    \/ \E g \in GroupNames : ExternalUpdate(g)
    \/ Cancel

SpecCancel == Init /\ [][NextCancel]_vars

(***************************************************************************)
(* Vocabulary of the properties                                            *)
(***************************************************************************)
\* the replica carries the opt-in label with the value "true"
OptedIn(pod) ==
    /\ ~pod.labels.isNil
    /\ StatefulsetStable \in DOMAIN pod.labels.kv
    /\ pod.labels.kv[StatefulsetStable] = "true"

\* the replica has an ownership reference of kind StatefulSet
OwnedByStatefulSet(pod) == \E i \in 1..Len(pod.owners) : pod.owners[i].Kind = "StatefulSet"

\* the name its owning group is looked up by
GroupOf(pod) == pod.owners[1].Name

\* the opted-in replica's owning group resolves in the lister
Resolves(pod) == OptedIn(pod) /\ OwnedByStatefulSet(pod) /\ cache[GroupOf(pod)].exists

HasRecordText(obj) ==
    /\ obj.exists
    /\ ~obj.annotations.isNil
    /\ StatefulsetStableRecord \in DOMAIN obj.annotations.kv

RecordText(obj) == obj.annotations.kv[StatefulsetStableRecord]

\* the record annotation holds a string that does not parse
Malformed(obj) == HasRecordText(obj) /\ RecordText(obj).form \in {"junk", "empty"}

\* the entries of the object's record: none when it has no record or one that
\* does not parse
Entries(obj) ==
    IF HasRecordText(obj) /\ ~Malformed(obj)
    THEN Unmarshal(RecordText(obj)).record.Records
    ELSE EmptyMap

FilterReturned == lastCall.op = "Filter"

(***************************************************************************)
(* C1  Stickiness enforcement: when Filter is called for an opted-in       *)
(* replica R whose owning group resolves and whose decoded record maps R   *)
(* to node A, it admits candidate A and rejects, as Unschedulable, every   *)
(* other candidate.                                                        *)
(***************************************************************************)
C1_Sticky ==
    /\ FilterReturned
    /\ Resolves(lastCall.pod)
    /\ ~Malformed(cache[GroupOf(lastCall.pod)])
    /\ lastCall.pod.name \in DOMAIN Entries(cache[GroupOf(lastCall.pod)])

C1_StickinessEnforcement ==
    C1_Sticky =>
        LET A == Entries(cache[GroupOf(lastCall.pod)])[lastCall.pod.name]
        IN  /\ lastCall.node = A => lastCall.status.code = "Success"
            /\ lastCall.node # A => lastCall.status.code = "Unschedulable"

C1_Witness ==
    /\ C1_Sticky
    /\ lastCall.node # Entries(cache[GroupOf(lastCall.pod)])[lastCall.pod.name]
    /\ lastCall.status.code = "Unschedulable"

(***************************************************************************)
(* C6  Malformed record handling, as claimed: for an opted-in replica      *)
(* whose owning group resolves and whose record annotation does not parse, *)
(* Filter returns the Error outcome for every candidate node.              *)
(***************************************************************************)
C6_Case ==
    /\ FilterReturned
    /\ Resolves(lastCall.pod)
    /\ Malformed(cache[GroupOf(lastCall.pod)])

C6_ErrorOutcome == C6_Case => lastCall.status.code = "Error"

(***************************************************************************)
(* C6  as amended: in that case Filter never admits; it returns the status *)
(* code Unschedulable, the code of a rejection, with the decode error's    *)
(* message as its reason.                                                  *)
(***************************************************************************)
C6_MalformedRejected ==
    C6_Case =>
        /\ lastCall.status.code = "Unschedulable"
        /\ lastCall.status.reason # ""

C6_Witness ==
    /\ C6_Case
    /\ RecordText(cache[GroupOf(lastCall.pod)]).form = "junk"
    /\ lastCall.status.code = "Unschedulable"

(***************************************************************************)
(* C8  Unrecorded replica is unconstrained: for an opted-in replica R      *)
(* whose owning group's record parses and has entries only for other       *)
(* replicas, Filter admits every candidate node.                           *)
(***************************************************************************)
C8_Case ==
    /\ FilterReturned
    /\ Resolves(lastCall.pod)
    /\ HasRecordText(cache[GroupOf(lastCall.pod)])
    /\ ~Malformed(cache[GroupOf(lastCall.pod)])
    /\ Entries(cache[GroupOf(lastCall.pod)]) # EmptyMap
    /\ lastCall.pod.name \notin DOMAIN Entries(cache[GroupOf(lastCall.pod)])

C8_UnrecordedAdmitted == C8_Case => lastCall.status.code = "Success"

C8_Witness ==
    /\ C8_Case
    /\ \E n \in DOMAIN Entries(cache[GroupOf(lastCall.pod)]) :
          Entries(cache[GroupOf(lastCall.pod)])[n] # lastCall.node
    /\ lastCall.status.code = "Success"

(***************************************************************************)
(* C2  No lost update under concurrency, as claimed: two concurrent        *)
(* PostBind invocations for distinct opted-in replicas R1 -> N1 and        *)
(* R2 -> N2 of one group, starting from an empty record and meeting no     *)
(* failure other than conflicts, both succeed and the final record holds   *)
(* both entries.                                                           *)
(***************************************************************************)
C2_BothSucceed ==
    \A p, q \in Procs :
        (/\ p # q
         /\ procs[p].pc = "done" /\ procs[q].pc = "done"
         /\ procs[p].pod.name # procs[q].pod.name
         /\ procs[p].err \notin {"backend error", "not found"}
         /\ procs[q].err \notin {"backend error", "not found"})
        => /\ procs[p].err = "" /\ procs[q].err = ""
           /\ procs[p].pod.name \in DOMAIN Entries(store["web"])
           /\ procs[q].pod.name \in DOMAIN Entries(store["web"])
           /\ Entries(store["web"])[procs[p].pod.name] = procs[p].node
           /\ Entries(store["web"])[procs[q].pod.name] = procs[q].node

(***************************************************************************)
(* C2  as amended: starting from an empty record, every invocation that    *)
(* returns without error has its replica in the stored record, with its    *)
(* own node when no other invocation is for the same replica; so two       *)
(* invocations for distinct replicas that both succeed leave both entries. *)
(* (An invocation whose Steps attempts all meet a conflict fails.)         *)
(***************************************************************************)
C2_NoLostUpdate ==
    \A p \in Procs :
        (procs[p].pc = "done" /\ procs[p].err = "")
        => /\ procs[p].pod.name \in DOMAIN Entries(store["web"])
           /\ (\A q \in Procs \ {p} : procs[q].pod.name # procs[p].pod.name)
                => Entries(store["web"])[procs[p].pod.name] = procs[p].node

C2_Witness ==
    \E p, q \in Procs :
        /\ p # q
        /\ procs[p].pc = "done" /\ procs[q].pc = "done"
        /\ procs[p].err = "" /\ procs[q].err = ""
        /\ procs[p].pod.name # procs[q].pod.name
        /\ procs[q].attempt > 1
        /\ Entries(store["web"])[procs[p].pod.name] = procs[p].node
        /\ Entries(store["web"])[procs[q].pod.name] = procs[q].node

(***************************************************************************)
(* C3  First write wins: no step removes an entry of a group's stored      *)
(* record or changes its node, whatever PostBind invocations run,          *)
(* two for the same replica with different nodes included.                 *)
(***************************************************************************)
C3_EntriesKept ==
    \A g \in GroupNames : \A n \in DOMAIN Entries(store[g]) :
        /\ n \in DOMAIN Entries(store'[g])
        /\ Entries(store'[g])[n] = Entries(store[g])[n]

C3_FirstWriteWins == [][C3_EntriesKept]_vars

C3_Witness ==
    \E p, q \in Procs :
        /\ p # q
        /\ procs[p].pc = "done" /\ procs[q].pc = "done"
        /\ procs[p].pod.name = procs[q].pod.name
        /\ procs[p].node # procs[q].node
        /\ procs[p].err = "" /\ procs[q].err = ""
        /\ store["web"].rv > 1
        /\ Entries(store["web"])[procs[p].pod.name] = procs[p].node

(***************************************************************************)
(* C9  Idempotent re-recording: once a PostBind invocation for (R, N) has  *)
(* returned without error, no step of another invocation for the same      *)
(* (R, N) changes the stored group object, value or version: the record    *)
(* stays what the first call left.                                         *)
(***************************************************************************)
C9_SecondCallWritesNothing ==
    \A p, q \in Procs :
        (/\ p # q
         /\ procs[q].pc = "done" /\ procs[q].err = ""
         /\ procs'[p] # procs[p]
         /\ procs'[p].pod.name = procs[q].pod.name
         /\ procs'[p].node = procs[q].node)
        => store' = store

C9_Idempotent == [][C9_SecondCallWritesNothing]_vars

C9_Witness ==
    \E p, q \in Procs :
        /\ p # q
        /\ procs[p].pc = "done" /\ procs[q].pc = "done"
        /\ procs[p].err = "" /\ procs[q].err = ""
        /\ procs[p].attempt = 1 /\ procs[q].attempt = 1
        /\ procs[p].pod.name = procs[q].pod.name
        /\ procs[p].node = procs[q].node
        /\ store["web"].rv = 2 /\ touched = 0
        /\ Entries(store["web"])[procs[p].pod.name] = procs[p].node

(***************************************************************************)
(* Steps of a PostBind invocation                                          *)
(***************************************************************************)
\* invocation p runs the retried function: at its start or after a sleep
Ran(p) == procs[p].pc \in {"idle", "sleep"} /\ procs'[p] # procs[p]

\* the Update of invocation p is accepted
Wrote(p) == procs[p].pc = "update" /\ procs'[p].pc = "done" /\ procs'[p].err = ""

\* the annotations of an object other than the record
OtherAnnotations(obj) ==
    IF obj.annotations.isNil THEN EmptyMap
    ELSE [k \in DOMAIN obj.annotations.kv \ {StatefulsetStableRecord} |-> obj.annotations.kv[k]]

(***************************************************************************)
(* C4  Opt-out passthrough: for a replica without labels, without the      *)
(* opt-in label or with a value of it other than "true", Filter admits     *)
(* every candidate node, and PostBind returns at once without error and    *)
(* leaves every group object as it is, whatever the record holds.          *)
(***************************************************************************)
C4_FilterAdmits ==
    (FilterReturned /\ ~OptedIn(lastCall.pod)) => lastCall.status.code = "Success"

C4_RecorderNoOp ==
    \A p \in Procs :
        (procs'[p] # procs[p] /\ ~OptedIn(procs'[p].pod))
        => /\ store' = store
           /\ procs[p].pc = "idle"
           /\ procs'[p].pc = "done"
           /\ procs'[p].err = ""

C4_OptOutPassthrough == []C4_FilterAdmits /\ [][C4_RecorderNoOp]_vars

C4_Witness ==
    /\ FilterReturned
    /\ procs[1].pc = "done"
    /\ procs[1].pod = lastCall.pod
    /\ ~lastCall.pod.labels.isNil
    /\ MapGet(lastCall.pod.labels.kv, StatefulsetStable) = "false"
    /\ OwnedByStatefulSet(lastCall.pod)
    /\ lastCall.pod.name \in DOMAIN Entries(cache[GroupOf(lastCall.pod)])
    /\ Entries(cache[GroupOf(lastCall.pod)])[lastCall.pod.name] # lastCall.node
    /\ lastCall.status.code = "Success"
    /\ store = cache

(***************************************************************************)
(* C5  Ownership mismatch: for an opted-in replica with no ownership       *)
(* reference of kind StatefulSet, Filter admits every candidate node and   *)
(* PostBind returns without error and writes nothing, whatever groups and  *)
(* records exist.                                                          *)
(***************************************************************************)
C5_FilterAdmits ==
    (FilterReturned /\ OptedIn(lastCall.pod) /\ ~OwnedByStatefulSet(lastCall.pod))
    => lastCall.status.code = "Success"

C5_RecorderNoOp ==
    \A p \in Procs :
        (/\ procs'[p] # procs[p]
         /\ OptedIn(procs'[p].pod)
         /\ ~OwnedByStatefulSet(procs'[p].pod))
        => /\ store' = store
           /\ procs[p].pc = "idle"
           /\ procs'[p].pc = "done"
           /\ procs'[p].err = ""

C5_OwnershipMismatch == []C5_FilterAdmits /\ [][C5_RecorderNoOp]_vars

C5_Witness ==
    /\ FilterReturned
    /\ procs[1].pc = "done"
    /\ procs[1].pod = lastCall.pod
    /\ OptedIn(lastCall.pod)
    /\ ~OwnedByStatefulSet(lastCall.pod)
    /\ Len(lastCall.pod.owners) > 0
    /\ lastCall.pod.name \in DOMAIN Entries(cache[GroupOf(lastCall.pod)])
    /\ Entries(cache[GroupOf(lastCall.pod)])[lastCall.pod.name] # lastCall.node
    /\ lastCall.status.code = "Success"
    /\ store = cache

(***************************************************************************)
(* C7  Absent or empty record means no record, as claimed: for an opted-in *)
(* replica whose owning group resolves and whose record annotation is      *)
(* absent or the empty string, Filter admits every candidate node.         *)
(***************************************************************************)
NoRecordText(obj) == obj.exists /\ ~HasRecordText(obj)
EmptyRecordText(obj) == HasRecordText(obj) /\ RecordText(obj).form = "empty"

C7_AbsentOrEmptyAdmits ==
    (/\ FilterReturned
     /\ Resolves(lastCall.pod)
     /\ \/ NoRecordText(cache[GroupOf(lastCall.pod)])
        \/ EmptyRecordText(cache[GroupOf(lastCall.pod)]))
    => lastCall.status.code = "Success"

(***************************************************************************)
(* C7  as amended: when the record annotation key is absent, Filter admits *)
(* every candidate node and PostBind issues an Update whose record is      *)
(* exactly the replica's entry, stored when the Update is accepted; when   *)
(* the value is the empty string, decoding fails as for any malformed      *)
(* text: Filter returns Unschedulable with the error's message and         *)
(* PostBind ends with that error and writes nothing.                       *)
(***************************************************************************)
C7_Filter ==
    (FilterReturned /\ Resolves(lastCall.pod))
    => /\ NoRecordText(cache[GroupOf(lastCall.pod)]) => lastCall.status.code = "Success"
       /\ EmptyRecordText(cache[GroupOf(lastCall.pod)])
            => /\ lastCall.status.code = "Unschedulable"
               /\ lastCall.status.reason # ""

C7_Recorder ==
    \A p \in Procs :
        /\ (Ran(p) /\ Resolves(procs'[p].pod))
            => LET read == cache[GroupOf(procs'[p].pod)]
               IN  /\ NoRecordText(read)
                        => /\ procs'[p].pc = "update"
                           /\ procs'[p].copy.name = GroupOf(procs'[p].pod)
                           /\ procs'[p].copy.obj.rv = read.rv
                           /\ Entries(procs'[p].copy.obj)
                                = [k \in {procs'[p].pod.name} |-> procs'[p].node]
                   /\ EmptyRecordText(read)
                        => /\ procs'[p].pc = "done"
                           /\ procs'[p].err # ""
                           /\ store' = store
        /\ Wrote(p)
            => store'[procs[p].copy.name].annotations = procs[p].copy.obj.annotations

C7_AbsentIsNoRecord == []C7_Filter /\ [][C7_Recorder]_vars

C7_Witness ==
    /\ FilterReturned
    /\ procs[1].pc = "done" /\ procs[1].err = ""
    /\ procs[1].pod = lastCall.pod
    /\ Resolves(lastCall.pod)
    /\ NoRecordText(cache[GroupOf(lastCall.pod)])
    /\ lastCall.status.code = "Success"
    /\ store[GroupOf(lastCall.pod)].rv = 2 /\ touched = 0
    /\ Entries(store[GroupOf(lastCall.pod)]) = [k \in {procs[1].pod.name} |-> procs[1].node]

(***************************************************************************)
(* C10  Recording a first placement: a PostBind invocation for an opted-in *)
(* replica R whose owning group resolves with a record that parses and has *)
(* no entry for R issues an Update; the Update is accepted when no other  *)
(* writer changed the group since the read and the backend does not fail,  *)
(* and then the stored record is the previous record plus exactly R -> N,  *)
(* and the other annotations of the group and the other groups are         *)
(* unchanged.                                                              *)
(***************************************************************************)
C10_Step ==
    \A p \in Procs :
        /\ (/\ Ran(p)
            /\ Resolves(procs'[p].pod)
            /\ ~Malformed(cache[GroupOf(procs'[p].pod)])
            /\ procs'[p].pod.name \notin DOMAIN Entries(cache[GroupOf(procs'[p].pod)]))
            => procs'[p].pc = "update"
        /\ (/\ procs[p].pc = "update"
            /\ procs'[p] # procs[p]
            /\ store[procs[p].copy.name].exists
            /\ store[procs[p].copy.name].rv = procs[p].copy.obj.rv
            /\ procs'[p].err # "backend error")
            => Wrote(p)
        /\ Wrote(p)
            => LET g == procs[p].copy.name
                   R == procs[p].pod.name
                   old == Entries(store[g])
               IN  /\ g = GroupOf(procs[p].pod)
                   /\ R \notin DOMAIN old
                   /\ Entries(store'[g])
                        = [k \in DOMAIN old \cup {R} |-> IF k = R THEN procs[p].node ELSE old[k]]
                   /\ HasRecordText(store'[g]) /\ ~Malformed(store'[g])
                   /\ OtherAnnotations(store'[g]) = OtherAnnotations(store[g])
                   /\ \A h \in GroupNames \ {g} : store'[h] = store[h]

C10_FirstPlacement == [][C10_Step]_vars

C10_Witness ==
    LET g == GroupOf(procs[1].pod)
    IN  /\ procs[1].pc = "done" /\ procs[1].err = ""
        /\ Resolves(procs[1].pod)
        /\ cache[g].rv = 1 /\ store[g].rv = 2 /\ touched = 0
        /\ Entries(cache[g]) # EmptyMap
        /\ OtherAnnotation \in DOMAIN store[g].annotations.kv
        /\ DOMAIN Entries(store[g]) = DOMAIN Entries(cache[g]) \cup {procs[1].pod.name}
        /\ Entries(store[g])[procs[1].pod.name] = procs[1].node

(***************************************************************************)
(* C11  End-to-end stickiness: once a PostBind invocation for an opted-in  *)
(* replica R and node A has returned without error and the stored record   *)
(* of R's owning group maps R to A, no Filter call for R admits a node     *)
(* other than A.                                                           *)
(***************************************************************************)
C11_Recorded ==
    /\ procs[1].pc = "done" /\ procs[1].err = ""
    /\ OptedIn(procs[1].pod)
    /\ OwnedByStatefulSet(procs[1].pod)
    /\ store[GroupOf(procs[1].pod)].exists
    /\ procs[1].pod.name \in DOMAIN Entries(store[GroupOf(procs[1].pod)])
    /\ Entries(store[GroupOf(procs[1].pod)])[procs[1].pod.name] = procs[1].node

C11_EndToEndStickiness ==
    (/\ C11_Recorded
     /\ FilterReturned
     /\ lastCall.pod = procs[1].pod
     /\ lastCall.node # procs[1].node)
    => lastCall.status.code # "Success"

(***************************************************************************)
(* C12  Filter is read-only: a step in which a Filter call returns, for    *)
(* any replica, candidate node and group state, and at any point of a      *)
(* PostBind invocation, changes neither the stored group objects nor the   *)
(* lister's copies, the pending watch events or the invocation in flight.  *)
(***************************************************************************)
C12_FilterStep ==
    lastCall'.op = "Filter" => UNCHANGED <<store, cache, events, procs, touched, pods, cancelled>>

C12_FilterReadOnly == [][C12_FilterStep]_vars

C12_Witness ==
    /\ FilterReturned
    /\ procs[1].pc = "update"
    /\ lastCall.pod = procs[1].pod
    /\ Resolves(lastCall.pod)
    /\ HasRecordText(cache[GroupOf(lastCall.pod)])
    /\ lastCall.status.code = "Success"
    /\ events[GroupOf(lastCall.pod)] # <<>>

(***************************************************************************)
(* C13  Bounded retry: a PostBind invocation runs the retried function at  *)
(* most Steps times and returns after at most 2 * Steps + 1 steps of its   *)
(* own, whatever the other invocations do: each of its steps moves it      *)
(* forward (Rank) and nothing moves it once it has returned; an Update     *)
(* that meets a conflict at the last attempt ends the invocation with the  *)
(* conflict error, which is logged and not returned, and changes no stored *)
(* object.                                                                 *)
(***************************************************************************)
\* how far invocation p has come: 0 before its start, 2n - 1 at the Update of
\* its n-th attempt, 2n in the sleep after it, 2 * Steps + 1 once returned
Rank(proc) ==
    CASE proc.pc = "idle" -> 0
      [] proc.pc = "update" -> 2 * proc.attempt - 1
      [] proc.pc = "sleep" -> 2 * proc.attempt
      [] OTHER -> 2 * Steps + 1

C13_Bound ==
    \A p \in Procs :
        /\ procs[p].attempt <= Steps
        /\ Rank(procs[p]) <= 2 * Steps + 1

\* the Update of invocation p is answered with a conflict
Conflicted(p) ==
    /\ procs[p].pc = "update"
    /\ procs'[p] # procs[p]
    /\ procs'[p].err # "backend error"
    /\ store[procs[p].copy.name].exists
    /\ store[procs[p].copy.name].rv # procs[p].copy.obj.rv

C13_Progress ==
    \A p \in Procs :
        /\ procs'[p] # procs[p] => Rank(procs'[p]) > Rank(procs[p])
        /\ (Conflicted(p) /\ procs[p].attempt = Steps)
            => /\ procs'[p].pc = "done"
               /\ procs'[p].err = "conflict"
               /\ procs'[p].pod = procs[p].pod
               /\ procs'[p].node = procs[p].node
               /\ store' = store

C13_BoundedRetry == []C13_Bound /\ [][C13_Progress]_vars

C13_Witness ==
    \E p \in Procs :
        /\ procs[p].pc = "done"
        /\ procs[p].attempt = Steps
        /\ procs[p].err = "conflict"
        /\ procs[p].pod.name \notin DOMAIN Entries(store["web"])

(***************************************************************************)
(* C14  Retry restarts from the read: every attempt of a PostBind          *)
(* invocation, the first and each one after a conflict, reads the group    *)
(* from the lister anew and computes from that read alone: nothing is kept *)
(* across the sleep, the object it hands to Update carries the version and *)
(* the other annotations of that read and the read's record plus R -> N,   *)
(* an attempt that returns without an Update found R in that read, and an  *)
(* Update is accepted only at the version its attempt read.                *)
(***************************************************************************)
\* invocation p begins an attempt
Attempted(p) == procs'[p].attempt # procs[p].attempt

C14_Attempt ==
    \A p \in Procs :
        LET g == GroupOf(procs'[p].pod)
            R == procs'[p].pod.name
            read == cache[g]
        IN  /\ procs[p].pc = "sleep" => procs[p].copy = NilStatefulSet
            /\ (Attempted(p) /\ procs'[p].pc = "update")
                => /\ procs'[p].copy.name = g
                   /\ procs'[p].copy.obj.rv = read.rv
                   /\ R \notin DOMAIN Entries(read)
                   /\ Entries(procs'[p].copy.obj)
                        = [k \in DOMAIN Entries(read) \cup {R} |->
                              IF k = R THEN procs'[p].node ELSE Entries(read)[k]]
                   /\ OtherAnnotations(procs'[p].copy.obj) = OtherAnnotations(read)
            /\ (Attempted(p) /\ procs'[p].pc = "done" /\ procs'[p].err = "")
                => R \in DOMAIN Entries(read)
            /\ Wrote(p)
                => /\ store[procs[p].copy.name].rv = procs[p].copy.obj.rv
                   /\ store'[procs[p].copy.name].annotations = procs[p].copy.obj.annotations

C14_RetryFromRead == [][C14_Attempt]_vars

C14_Witness ==
    \E p, q \in Procs :
        /\ p # q
        /\ procs[p].pc = "done" /\ procs[p].err = "" /\ procs[p].attempt = 1
        /\ procs[q].pc = "done" /\ procs[q].err = "" /\ procs[q].attempt = 3
        /\ procs[p].pod.name # procs[q].pod.name
        /\ store["web"].rv = 3
        /\ procs[p].pod.name \in DOMAIN Entries(store["web"])
        /\ procs[q].pod.name \in DOMAIN Entries(store["web"])
        /\ OtherAnnotation \in DOMAIN store["web"].annotations.kv

(***************************************************************************)
(* C15  Lookup failure degrades to unconstrained: for an opted-in replica  *)
(* with an ownership reference of kind StatefulSet whose group the lister  *)
(* does not return, Filter admits every candidate node, and an attempt of  *)
(* PostBind returns without error, issues no Update and changes no stored  *)
(* object.                                                                 *)
(***************************************************************************)
C15_Case(pod) ==
    /\ OptedIn(pod)
    /\ OwnedByStatefulSet(pod)
    /\ ~cache[GroupOf(pod)].exists

C15_FilterAdmits ==
    (FilterReturned /\ C15_Case(lastCall.pod)) => lastCall.status.code = "Success"

C15_RecorderNoOp ==
    \A p \in Procs :
        (Ran(p) /\ C15_Case(procs'[p].pod))
        => /\ procs'[p].pc = "done"
           /\ procs'[p].err = ""
           /\ store' = store

C15_LookupFailure == []C15_FilterAdmits /\ [][C15_RecorderNoOp]_vars

C15_Witness ==
    /\ FilterReturned
    /\ C15_Case(lastCall.pod)
    /\ GroupOf(lastCall.pod) = "web"
    /\ procs[1].pc = "done" /\ procs[1].err = ""
    /\ procs[1].pod = lastCall.pod
    /\ procs[1].node # lastCall.node
    /\ lastCall.status.code = "Success"
    /\ store = cache
    /\ cache["db"].exists
    /\ lastCall.pod.name \in DOMAIN Entries(cache["db"])
    /\ Entries(cache["db"])[lastCall.pod.name] # lastCall.node

(***************************************************************************)
(* C16  PostBind never repairs or overwrites a record that does not parse: *)
(* for an opted-in replica whose owning group resolves with a malformed    *)
(* record annotation, the attempt ends the invocation with the decode      *)
(* error, which is logged, issues no Update and leaves every stored        *)
(* object, the malformed value included, as it is.                         *)
(***************************************************************************)
C16_Step ==
    \A p \in Procs :
        /\ (/\ Ran(p)
            /\ Resolves(procs'[p].pod)
            /\ Malformed(cache[GroupOf(procs'[p].pod)]))
            => /\ procs'[p].pc = "done"
               /\ procs'[p].err = "unmarshal error"
               /\ store' = store
        /\ (procs[p].pc = "done" /\ procs[p].err = "unmarshal error")
            => procs'[p] = procs[p]

C16_Kept ==
    \A p \in Procs :
        (/\ procs[p].pc = "done"
         /\ procs[p].err = "unmarshal error"
         /\ touched = 0
         /\ store[GroupOf(procs[p].pod)].exists)
        => /\ Malformed(store[GroupOf(procs[p].pod)])
           /\ store[GroupOf(procs[p].pod)].rv = 1

C16_MalformedKept == []C16_Kept /\ [][C16_Step]_vars

C16_Witness ==
    /\ procs[1].pc = "done"
    /\ procs[1].err = "unmarshal error"
    /\ procs[1].attempt = 1
    /\ store = cache
    /\ RecordText(store[GroupOf(procs[1].pod)]).form = "junk"
    /\ OtherAnnotation \in DOMAIN store[GroupOf(procs[1].pod)].annotations.kv

(***************************************************************************)
(* C17  Owning-group resolution: for an opted-in replica with several      *)
(* ownership references of which one has kind StatefulSet, the group both  *)
(* handlers use is the one named by the first reference of the list,       *)
(* whatever its kind: Filter answers from that group's record alone, and   *)
(* PostBind reads that group, hands it to Update and changes no other.     *)
(***************************************************************************)
C17_Case(pod) ==
    /\ OptedIn(pod)
    /\ Len(pod.owners) > 1
    /\ OwnedByStatefulSet(pod)

\* what Filter answers from the record of group g
C17_Answer(g, name, nodeName) ==
    IF ~cache[g].exists THEN "Success"
    ELSE IF Malformed(cache[g]) THEN "Unschedulable"
    ELSE IF name \in DOMAIN Entries(cache[g]) /\ Entries(cache[g])[name] # nodeName
         THEN "Unschedulable"
         ELSE "Success"

C17_Filter ==
    (FilterReturned /\ C17_Case(lastCall.pod))
    => lastCall.status.code
         = C17_Answer(lastCall.pod.owners[1].Name, lastCall.pod.name, lastCall.node)

C17_Recorder ==
    \A p \in Procs :
        /\ (Ran(p) /\ C17_Case(procs'[p].pod) /\ procs'[p].pc = "update")
            => /\ procs'[p].copy.name = procs'[p].pod.owners[1].Name
               /\ procs'[p].copy.obj.rv = cache[procs'[p].pod.owners[1].Name].rv
               /\ procs'[p].pod.name \notin DOMAIN Entries(cache[procs'[p].pod.owners[1].Name])
        /\ (Ran(p) /\ C17_Case(procs'[p].pod) /\ procs'[p].pc = "done")
            => \/ ~cache[procs'[p].pod.owners[1].Name].exists
               \/ Malformed(cache[procs'[p].pod.owners[1].Name])
               \/ procs'[p].pod.name \in DOMAIN Entries(cache[procs'[p].pod.owners[1].Name])
        /\ (Wrote(p) /\ C17_Case(procs[p].pod))
            => \A g \in GroupNames \ {procs[p].pod.owners[1].Name} : store'[g] = store[g]

C17_FirstReferenceName == []C17_Filter /\ [][C17_Recorder]_vars

\* the references are [(ReplicaSet, db), (StatefulSet, web)]: Filter rejects
\* from db's record a node that web's record does not exclude
C17_Witness ==
    /\ FilterReturned
    /\ C17_Case(lastCall.pod)
    /\ lastCall.pod.owners[1] = OwnerReference(OtherKind, "db")
    /\ lastCall.pod.owners[2] = OwnerReference(Kind, "web")
    /\ cache["web"].exists /\ ~Malformed(cache["web"])
    /\ lastCall.pod.name \in DOMAIN Entries(cache["web"])
    /\ Entries(cache["web"])[lastCall.pod.name] = lastCall.node
    /\ lastCall.status.code = "Unschedulable"
    /\ Entries(cache["db"])[lastCall.pod.name] # lastCall.node

(***************************************************************************)
(* C18  Only a version conflict is retried: an attempt of PostBind that    *)
(* fails with a decode error, or whose Update fails with an error other    *)
(* than a conflict, ends the invocation at that attempt, and a returned    *)
(* invocation reads and writes nothing more; only a conflict before the    *)
(* last attempt leads to another attempt; and an invocation that returns   *)
(* without error after a conflict has its replica in the stored record,    *)
(* with its own node when no other invocation is for that replica.         *)
(***************************************************************************)
C18_Step ==
    \A p \in Procs :
        /\ (Ran(p) /\ Malformed(cache[GroupOf(procs'[p].pod)]))
            => (procs'[p].pc = "done" /\ procs'[p].err = "unmarshal error")
        /\ (procs[p].pc = "update" /\ procs'[p] # procs[p] /\ ~Conflicted(p))
            => (procs'[p].pc = "done" /\ procs'[p].attempt = procs[p].attempt)
        /\ procs'[p].pc = "sleep"
            => \/ procs[p].pc = "sleep"
               \/ Conflicted(p) /\ procs[p].attempt < Steps
        /\ procs[p].pc = "done" => procs'[p] = procs[p]

C18_Stored ==
    \A p \in Procs :
        (procs[p].pc = "done" /\ procs[p].err = "" /\ procs[p].attempt > 1)
        => /\ procs[p].pod.name \in DOMAIN Entries(store["web"])
           /\ (\A q \in Procs \ {p} : procs[q].pod.name # procs[p].pod.name)
                => Entries(store["web"])[procs[p].pod.name] = procs[p].node

C18_OnlyConflictRetried == []C18_Stored /\ [][C18_Step]_vars

C18_Witness ==
    \E p, q \in Procs :
        /\ p # q
        /\ procs[p].pc = "done" /\ procs[p].err = "" /\ procs[p].attempt = 1
        /\ procs[q].pc = "done" /\ procs[q].err = "" /\ procs[q].attempt = 2
        /\ procs[p].pod.name # procs[q].pod.name
        /\ store["web"].rv = 3 /\ cache["web"].rv = 2
        /\ Entries(store["web"])[procs[p].pod.name] = procs[p].node
        /\ Entries(store["web"])[procs[q].pod.name] = procs[q].node

(***************************************************************************)
(* C19  Cancellation is honored, as claimed: once ctx is done, a Filter    *)
(* call for an opted-in replica returns the Error outcome, and every step  *)
(* of a PostBind invocation that is mid-retry ends it as a failure and     *)
(* stores nothing.                                                         *)
(***************************************************************************)
C19_FilterErrors ==
    (FilterReturned /\ cancelled /\ OptedIn(lastCall.pod)) => lastCall.status.code = "Error"

C19_RetryAbandoned ==
    \A p \in Procs :
        (/\ cancelled
         /\ procs[p].pc \in {"sleep", "update"}
         /\ procs'[p] # procs[p])
        => /\ procs'[p].pc = "done"
           /\ procs'[p].err # ""
           /\ store' = store

C19_CancellationHonored == []C19_FilterErrors /\ [][C19_RetryAbandoned]_vars

(***************************************************************************)
(* C19  as amended: ctx reaches the Update call alone.  Filter does not    *)
(* consult it: with ctx done it admits and rejects as it does otherwise.   *)
(* Cancelling interrupts neither a backoff sleep nor the retry loop; with  *)
(* ctx done, an Update call in flight returns ctx's error and ends the     *)
(* invocation as a logged failure without another attempt, and an attempt  *)
(* that is started stores nothing: it ends the invocation with ctx's error *)
(* when it comes to an Update, with the decode error when the record does  *)
(* not parse, and without failure when the replica has an entry already.   *)
(***************************************************************************)
C19_FilterIgnoresCtx ==
    (FilterReturned /\ cancelled /\ Resolves(lastCall.pod))
    => LET read == cache[GroupOf(lastCall.pod)]
           R == lastCall.pod.name
       IN  lastCall.status.code =
              IF Malformed(read) THEN "Unschedulable"
              ELSE IF R \in DOMAIN Entries(read) /\ Entries(read)[R] # lastCall.node
                   THEN "Unschedulable"
                   ELSE "Success"

C19_Recorder ==
    \A p \in Procs :
        /\ (cancelled' /\ ~cancelled) => (procs' = procs /\ store' = store)
        /\ (cancelled /\ Ran(p) /\ Resolves(procs'[p].pod))
            => LET read == cache[GroupOf(procs'[p].pod)]
                   R == procs'[p].pod.name
               IN  /\ procs'[p].pc = "done"
                   /\ store' = store
                   /\ procs'[p].err =
                        IF Malformed(read) THEN "unmarshal error"
                        ELSE IF R \in DOMAIN Entries(read) THEN ""
                        ELSE "context canceled"
        /\ (cancelled /\ procs[p].pc = "update" /\ procs'[p] # procs[p])
            => /\ procs'[p].pc = "done"
               /\ procs'[p].err = "context canceled"
               /\ procs'[p].attempt = procs[p].attempt

C19_CancellationReachesUpdate == []C19_FilterIgnoresCtx /\ [][C19_Recorder]_vars

\* ctx was cancelled during the sleep after a conflict: the second attempt
\* ended the invocation with ctx's error, and Filter admits the replica on
\* another node
C19_Witness ==
    \E p \in Procs :
        /\ cancelled
        /\ procs[p].pc = "done"
        /\ procs[p].err = "context canceled"
        /\ procs[p].attempt = 2
        /\ procs[p].pod.name \notin DOMAIN Entries(store["web"])
        /\ FilterReturned
        /\ lastCall.pod = procs[p].pod
        /\ lastCall.node # procs[p].node
        /\ lastCall.status.code = "Success"

====
